---- MODULE Spec2Model ----
(***************************************************************************)
(* WhatsAppService (src/server.js) and WhatsAppRepository                  *)
(* (src/unnamed/part_000) as a state machine.                              *)
(*                                                                         *)
(* The service is a singleton holding the session fields; the repository   *)
(* is a singleton holding the in-memory store.  The transport (the Client  *)
(* class of whatsapp-web.js, or the MockClient of importWhatsAppWeb) is    *)
(* the environment: it resolves or rejects the commands the service        *)
(* awaits and it emits events on the instances the service created.        *)
(*                                                                         *)
(* Granularity.  An async method is cut at every await of a TRANSPORT      *)
(* promise (importWhatsAppWeb, client.initialize, client.destroy,          *)
(* client.sendMessage, client.sendSeen, client.getChats,                   *)
(* client.getMessages, message.getChat/getContact): between the call and   *)
(* its completion other events and calls may run.  The repository's        *)
(* methods are async functions whose bodies run synchronously at the call; *)
(* their awaits are joined to the step that makes the call.                *)
(***************************************************************************)
EXTENDS Integers, Sequences, FiniteSets, TLC

\* ------------------------------------------------------------------ bounds
MaxInst == 2        \* transport instances created by initialize()
MaxMsgId == 2       \* message ids the transport knows per chat
MaxUnread == 2      \* cap on Contact.unreadCount
MaxLogs == 2        \* cap on the length of messageLogs
MaxQR == 2          \* cap on the length of qrCodes
MaxPending == 1     \* in-flight commands of one kind (destroy, send, seen, import)
MaxIngest == 2      \* message events suspended on getChat/getContact
MaxClock == 2       \* values of the clock read by new Date()
MaxObservers == 2   \* observers registered on one event of the service

\* ------------------------------------------------------- transport universe
Users == {"u1", "u2"}
Suffix == "@c.us"
Cus(u) == u \o Suffix
ChatIds == {Cus(u) : u \in Users}
GroupIds == {"g1@g.us"}
MsgIds == 1..MaxMsgId
QRStrings == {"qrA", "qrB"}
Reasons == {"LOGOUT"}

\* message.fromMe and message.timestamp of the transport's message `id`:
\* odd ids are the account's own messages.
FromMe(id) == id % 2 = 1
Ts(id) == id

\* A raw transport message (WhatsAppMessage, src/server.js:59-74): from/to are
\* the chat id on the non-self side.
RawMsg(chat, id) == [id |-> id, chat |-> chat, fromMe |-> FromMe(id), timestamp |-> Ts(id)]
RawMsgs == {RawMsg(c, i) : c \in ChatIds, i \in MsgIds}

NoClient == 0
Null == "null"
NoMsg == [id |-> 0]
NoStatus == [status |-> "none"]

\* What client.initialize() rejects with: an Error, or a value that is no Error.
StartErrors == {"E_START", "notAnError"}

VARIABLES
  \* WhatsAppService fields (src/server.js:84-89)
  client, qrCode, connectionState, connectionError, isInitializing,
  errorListener,
  \* suspended async calls
  pcInit, destroying, sending, seeing, importing, ingesting,
  \* transport instances
  instStatus,
  \* WhatsAppRepository fields (src/unnamed/part_000:6-10)
  contacts, messages, messageLogs, qrCodes, apiStatus,
  \* the clock read by new Date()
  now,
  \* the last step: the call, event or completion (op), its outcome (result: what
  \* a call returned or threw), the transport command it issued (cmd), the events
  \* the service emitted (emits), the emitting or commanded instance (inst), the
  \* chat and the message it was about (chat, ret)
  last

svc == <<client, qrCode, connectionState, connectionError, isInitializing>>
tasks == <<pcInit, destroying, sending, seeing, importing, ingesting>>
repo == <<contacts, messages, messageLogs, qrCodes, apiStatus>>
vars == <<svc, errorListener, tasks, instStatus, repo, now, last>>

Step(op, result, cmd, emits, inst, chat, ret) ==
  [op |-> op, result |-> result, cmd |-> cmd, emits |-> emits,
   inst |-> inst, chat |-> chat, ret |-> ret]

Created == {i \in 1..MaxInst : instStatus[i] # "none"}

Init ==
  /\ client = NoClient
  /\ qrCode = Null
  /\ connectionState = "DISCONNECTED"
  /\ connectionError = Null
  /\ isInitializing = FALSE
  /\ errorListener = FALSE
  /\ pcInit = "idle"
  /\ destroying = 0
  /\ sending = <<>>
  /\ seeing = <<>>
  /\ importing = <<>>
  /\ ingesting = <<>>
  /\ instStatus = [i \in 1..MaxInst |-> "none"]
  /\ contacts = <<>>
  /\ messages = <<>>
  /\ messageLogs = <<>>
  /\ qrCodes = <<>>
  /\ apiStatus = NoStatus
  /\ now = 1
  /\ last = Step("init", "ok", "none", <<>>, 0, "", NoMsg)


\* ------------------------------------------------------------- repository
\* Object spread {...old, ...new}: every key of new overwrites old's.
Merge(old, new) ==
  [k \in DOMAIN old \cup DOMAIN new |-> IF k \in DOMAIN new THEN new[k] ELSE old[k]]

\* Array.prototype.findIndex on the id, 1-based; 0 when absent.
FindIndex(list, id) ==
  IF \E i \in 1..Len(list) : list[i].id = id
  THEN CHOOSE i \in 1..Len(list) :
         /\ list[i].id = id
         /\ \A j \in 1..(i - 1) : list[j].id # id
  ELSE 0

\* Position of the key chatId in this.messages (keys in insertion order); 0 when absent.
ChatIndex(msgs, chatId) ==
  IF \E i \in 1..Len(msgs) : msgs[i].chatId = chatId
  THEN CHOOSE i \in 1..Len(msgs) : msgs[i].chatId = chatId
  ELSE 0

\* this.messages[chatId] || []
MessagesOf(msgs, chatId) ==
  IF ChatIndex(msgs, chatId) = 0 THEN <<>> ELSE msgs[ChatIndex(msgs, chatId)].list

saveContact(cts, contact) ==
  LET old == IF contact.id \in DOMAIN cts THEN cts[contact.id] ELSE <<>>
  IN  (contact.id :> Merge(old, contact)) @@ cts

saveMessage(msgs, message) ==
  LET withKey == IF ChatIndex(msgs, message.chatId) = 0
                 THEN Append(msgs, [chatId |-> message.chatId, list |-> <<>>])
                 ELSE msgs
      k == ChatIndex(withKey, message.chatId)
      existingIndex == FindIndex(withKey[k].list, message.id)
  IN  IF existingIndex > 0
      THEN [withKey EXCEPT ![k].list[existingIndex] = Merge(@, message)]
      ELSE [withKey EXCEPT ![k].list = Append(@, message)]

\* The log entry updateMessageStatus writes: the status, and the timestamp of
\* delivered or read.
UpdatedLog(log, status, timestamp) ==
  IF status = "delivered" THEN [log EXCEPT !.status = status, !.deliveredAt = timestamp]
  ELSE IF status = "read" THEN [log EXCEPT !.status = status, !.readAt = timestamp]
  ELSE [log EXCEPT !.status = status]

\* The first chat, in key order, that holds a message with this id.
FirstChatWith(msgs, messageId) ==
  IF \E i \in 1..Len(msgs) : FindIndex(msgs[i].list, messageId) > 0
  THEN CHOOSE i \in 1..Len(msgs) :
         /\ FindIndex(msgs[i].list, messageId) > 0
         /\ \A j \in 1..(i - 1) : FindIndex(msgs[j].list, messageId) = 0
  ELSE 0

\* Returns the store's messages and messageLogs after the update.
updateMessageStatus(msgs, logs, messageId, status, timestamp) ==
  LET c == FirstChatWith(msgs, messageId)
      logIndex == IF \E i \in 1..Len(logs) : logs[i].messageId = messageId
                  THEN CHOOSE i \in 1..Len(logs) :
                         /\ logs[i].messageId = messageId
                         /\ \A j \in 1..(i - 1) : logs[j].messageId # messageId
                  ELSE 0
  IN  IF c = 0
      THEN [messages |-> msgs, messageLogs |-> logs]
      ELSE [messages |->
              [msgs EXCEPT ![c].list[FindIndex(msgs[c].list, messageId)].status = status],
            messageLogs |->
              IF logIndex > 0
              THEN [logs EXCEPT ![logIndex] = UpdatedLog(@, status, timestamp)]
              ELSE logs]

\* Returns the store's messages and contacts after the update.
markMessagesAsRead(msgs, cts, chatId) ==
  LET k == ChatIndex(msgs, chatId)
  IN  IF k = 0
      THEN [messages |-> msgs, contacts |-> cts]
      ELSE [messages |->
              [msgs EXCEPT ![k].list =
                 [i \in 1..Len(@) |->
                    IF ~@[i].fromMe /\ @[i].status # "read"
                    THEN [@[i] EXCEPT !.status = "read"]
                    ELSE @[i]]],
            contacts |->
              IF chatId \in DOMAIN cts
              THEN [cts EXCEPT ![chatId].unreadCount = 0]
              ELSE cts]

saveMessageLog(logs, log) == Append(logs, log)

saveQRCode(qrs, qr) == Append(qrs, qr)

\* Array.prototype.find: the first record with this code.
markQRCodeAsScanned(qrs, code, timestamp) ==
  IF \E i \in 1..Len(qrs) : qrs[i].code = code
  THEN LET k == CHOOSE i \in 1..Len(qrs) :
                  /\ qrs[i].code = code
                  /\ \A j \in 1..(i - 1) : qrs[j].code # code
       IN  [qrs EXCEPT ![k].scanned = TRUE, ![k].scannedAt = timestamp]
  ELSE qrs

\* A MessageLog as sendMessage and processIncomingMessage build it.
NewLog(messageId, status, sentAt) ==
  [messageId |-> messageId, status |-> status, sentAt |-> sentAt,
   deliveredAt |-> 0, readAt |-> 0]


\* ------------------------------------------------- session: initialize()
\* EventEmitter.emit("error", ...) throws when no listener is registered for
\* "error"; on(...) is inherited from EventEmitter (src/server.js:83).
OnError ==
  /\ ~errorListener
  /\ errorListener' = TRUE
  /\ last' = Step("on", "ok", "none", <<>>, 0, "error", NoMsg)
  /\ UNCHANGED <<svc, tasks, instStatus, repo, now>>

\* initialize(), lines 115-136: the guards, then the state change, up to the
\* await of importWhatsAppWeb().
\* The guards without the test of the initializing flag.
InitializeGuardClientOnly == client # NoClient

InitializeGuard == isInitializing \/ client # NoClient

InitializeCall ==
  IF InitializeGuard
  THEN /\ last' = Step("initialize", "noop", "none", <<>>, 0, "", NoMsg)
       /\ UNCHANGED <<svc, errorListener, tasks, instStatus, repo, now>>
  ELSE /\ Cardinality(Created) < MaxInst
       /\ isInitializing' = TRUE
       /\ connectionState' = "CONNECTING"
       /\ pcInit' = "import"
       /\ last' = Step("initialize", "pending", "none", <<"stateChange">>, 0, "", NoMsg)
       /\ UNCHANGED <<client, qrCode, connectionError, errorListener, destroying,
                      sending, seeing, importing, ingesting, instStatus, repo, now>>

\* Lines 136-272: the import has resolved; new Client(...), the handlers are
\* registered, and the session-start command client.initialize() is issued.
InitializeCreate ==
  /\ pcInit = "import"
  /\ LET inst == Cardinality(Created) + 1
     IN  /\ client' = inst
         /\ instStatus' = [instStatus EXCEPT ![inst] = "started"]
         /\ last' = Step("initialize.create", "pending", "initialize", <<>>, inst, "", NoMsg)
  /\ pcInit' = "start"
  /\ UNCHANGED <<qrCode, connectionState, connectionError, isInitializing, errorListener,
                 destroying, sending, seeing, importing, ingesting, repo, now>>

\* error instanceof Error ? error.message : "Unknown error"
ErrorMessage(error) == IF error = "notAnError" THEN "Unknown error" ELSE error

\* Lines 272-273 and the finally: client.initialize() resolved.
InitializeResolved ==
  /\ pcInit = "start"
  /\ pcInit' = "idle"
  /\ isInitializing' = FALSE
  /\ last' = Step("initialize.resolved", "ok", "none", <<>>, 0, "", NoMsg)
  /\ UNCHANGED <<client, qrCode, connectionState, connectionError, errorListener,
                 destroying, sending, seeing, importing, ingesting, instStatus, repo, now>>

\* Lines 274-294: client.initialize() rejected.  emit("error") with no listener
\* throws out of the catch block: the snapshot is not saved and initialize() rejects.
InitializeRejected(error) ==
  /\ pcInit = "start"
  /\ connectionState' = "DISCONNECTED"
  /\ connectionError' = ErrorMessage(error)
  /\ IF errorListener
     THEN /\ apiStatus' = [status |-> "offline", errorMessage |-> ErrorMessage(error)]
          /\ last' = Step("initialize.rejected", "ok", "none", <<"stateChange", "error">>,
                          0, "", NoMsg)
     ELSE /\ apiStatus' = apiStatus
          /\ last' = Step("initialize.rejected", "error", "none", <<"stateChange">>,
                          0, "", NoMsg)
  /\ pcInit' = "idle"
  /\ isInitializing' = FALSE
  /\ UNCHANGED <<client, qrCode, errorListener, destroying, sending, seeing, importing,
                 ingesting, instStatus, contacts, messages, messageLogs, qrCodes, now>>

\* ------------------------------------------------- session: disconnect()
\* Lines 427-435: no client, no-op; otherwise the teardown command is issued.
DisconnectCall ==
  IF client = NoClient
  THEN /\ last' = Step("disconnect", "noop", "none", <<>>, 0, "", NoMsg)
       /\ UNCHANGED <<svc, errorListener, tasks, instStatus, repo, now>>
  ELSE /\ destroying < MaxPending
       /\ destroying' = destroying + 1
       /\ instStatus' = [instStatus EXCEPT ![client] = "destroyed"]
       /\ last' = Step("disconnect", "pending", "destroy", <<>>, client, "", NoMsg)
       /\ UNCHANGED <<svc, errorListener, pcInit, sending, seeing, importing, ingesting,
                      repo, now>>

\* Lines 436-440: client.destroy() resolved.
DisconnectResolved ==
  /\ destroying > 0
  /\ destroying' = destroying - 1
  /\ client' = NoClient
  /\ qrCode' = Null
  /\ connectionState' = "DISCONNECTED"
  /\ last' = Step("disconnect.resolved", "ok", "none", <<"stateChange">>, 0, "", NoMsg)
  /\ UNCHANGED <<connectionError, isInitializing, errorListener, pcInit, sending, seeing,
                 importing, ingesting, instStatus, repo, now>>

\* Lines 441-444: client.destroy() rejected; the error is rethrown.
DisconnectRejected ==
  /\ destroying > 0
  /\ destroying' = destroying - 1
  /\ last' = Step("disconnect.rejected", "error", "none", <<>>, 0, "", NoMsg)
  /\ UNCHANGED <<svc, errorListener, pcInit, sending, seeing, importing, ingesting,
                 instStatus, repo, now>>

\* --------------------------------------------- transport event handlers
\* An instance emits events once its session-start was issued; the handlers
\* registered on it stay registered after destroy().
Emits(inst) == instStatus[inst] \in {"started", "destroyed"}

\* Lines 151-164.
OnQr(inst, qr) ==
  /\ Emits(inst)
  /\ Len(qrCodes) < MaxQR
  /\ qrCode' = qr
  /\ qrCodes' = saveQRCode(qrCodes, [code |-> qr, generatedAt |-> now,
                                     scanned |-> FALSE, scannedAt |-> 0])
  /\ last' = Step("qr", "ok", "none", <<"qr">>, inst, "", NoMsg)
  /\ UNCHANGED <<client, connectionState, connectionError, isInitializing, errorListener,
                 tasks, instStatus, contacts, messages, messageLogs, apiStatus, now>>

\* Lines 187-197.
OnAuthenticated(inst) ==
  /\ Emits(inst)
  /\ qrCodes' = IF qrCode # Null THEN markQRCodeAsScanned(qrCodes, qrCode, now) ELSE qrCodes
  /\ last' = Step("authenticated", "ok", "none", <<"authenticated">>, inst, "", NoMsg)
  /\ UNCHANGED <<svc, errorListener, tasks, instStatus, contacts, messages, messageLogs,
                 apiStatus, now>>

\* Lines 199-203.
OnAuthFailure(inst, error) ==
  /\ Emits(inst)
  /\ connectionError' = "Authentication failure: " \o error
  /\ last' = Step("auth_failure", "ok", "none", <<"auth_failure">>, inst, "", NoMsg)
  /\ UNCHANGED <<client, qrCode, connectionState, isInitializing, errorListener, tasks,
                 instStatus, repo, now>>

\* Lines 205-226.
OnDisconnected(inst, reason) ==
  /\ Emits(inst)
  /\ connectionState' = "DISCONNECTED"
  /\ connectionError' = reason
  /\ apiStatus' = [status |-> "offline", errorMessage |-> "Disconnected: " \o reason]
  /\ client' = NoClient
  /\ last' = Step("disconnected", "ok", "none", <<"stateChange", "disconnected">>,
                  inst, "", NoMsg)
  /\ UNCHANGED <<qrCode, isInitializing, errorListener, tasks, instStatus, contacts,
                 messages, messageLogs, qrCodes, now>>


\* ------------------------------------------------------- bulk import
AllChats == ChatIds \cup GroupIds

\* What getChats() resolves with: chats of the account, each once, in any order.
ChatLists ==
  {<<>>} \cup {<<a>> : a \in AllChats}
         \cup {s \in AllChats \X AllChats : s[1] # s[2]}

\* chat.unreadCount and chat.lastMessage (lastId = 0: the chat has none) as the
\* transport reports them for each chat.
ChatAttrs == [ChatIds -> [unreadCount : 0..1, lastId : 0..MaxMsgId]]

\* Lines 314-327: the Contact built from a chat.
ImportedContact(chat, a) ==
  IF a.lastId = 0
  THEN [id |-> chat, unreadCount |-> a.unreadCount]
  ELSE [id |-> chat, unreadCount |-> a.unreadCount,
        lastMessage |-> [timestamp |-> Ts(a.lastId),
                         status |-> IF FromMe(a.lastId) THEN "sent" ELSE "received"]]

NoTask == <<>>
ImportTask(pc, chat, rest) == <<[pc |-> pc, chat |-> chat, rest |-> rest]>>

\* Lines 312-349, from the head of `chats` to the next await of getMessages.
\* A group chat is skipped.  With this.client null, this.client.getMessages
\* throws inside the inner try: the contact stays saved and the loop goes on.
RECURSIVE loadChats(_, _, _, _)
loadChats(cts, chats, attr, cl) ==
  IF chats = <<>> THEN [contacts |-> cts, task |-> NoTask]
  ELSE IF Head(chats) \in GroupIds THEN loadChats(cts, Tail(chats), attr, cl)
  ELSE LET saved == saveContact(cts, ImportedContact(Head(chats), attr[Head(chats)]))
       IN  IF cl = NoClient
           THEN loadChats(saved, Tail(chats), attr, cl)
           ELSE [contacts |-> saved,
                 task |-> ImportTask("getMessages", Head(chats), Tail(chats))]

\* Lines 334-344: saveMessage for each message of the chat, oldest first.
RECURSIVE loadMessages(_, _, _)
loadMessages(msgs, chat, ids) ==
  IF ids = {} THEN msgs
  ELSE LET id == CHOOSE i \in ids : \A j \in ids : Ts(i) <= Ts(j)
       IN  loadMessages(
             saveMessage(msgs, [id |-> id, chatId |-> chat, timestamp |-> Ts(id),
                                fromMe |-> FromMe(id),
                                status |-> IF FromMe(id) THEN "sent" ELSE "received"]),
             chat, ids \ {id})

Without(seq, i) == SubSeq(seq, 1, i - 1) \o SubSeq(seq, i + 1, Len(seq))

\* Lines 166-185 and 300-309: the ready handler up to the await of getChats().
loadInitialDataGuard == client = NoClient

OnReady(inst) ==
  /\ Emits(inst)
  /\ connectionState' = "CONNECTED"
  /\ qrCode' = Null
  /\ connectionError' = Null
  /\ apiStatus' = [status |-> "online"]
  /\ IF loadInitialDataGuard
     THEN /\ importing' = importing
          /\ last' = Step("ready", "ok", "none", <<"stateChange", "ready">>, inst, "", NoMsg)
     ELSE /\ Len(importing) < MaxPending
          /\ importing' = importing \o ImportTask("getChats", "", <<>>)
          /\ last' = Step("ready", "ok", "getChats", <<"stateChange", "ready">>,
                          inst, "", NoMsg)
  /\ UNCHANGED <<client, isInitializing, errorListener, pcInit, destroying, sending, seeing,
                 ingesting, instStatus, contacts, messages, messageLogs, qrCodes, now>>

\* Lines 309-329: getChats() resolved.
ImportChatsResolved(i, chats, attr) ==
  /\ importing[i].pc = "getChats"
  /\ LET r == loadChats(contacts, chats, attr, client)
     IN  /\ contacts' = r.contacts
         /\ importing' = Without(importing, i) \o r.task
  /\ last' = Step("getChats.resolved", "ok", "none", <<>>, 0, "", NoMsg)
  /\ UNCHANGED <<svc, errorListener, pcInit, destroying, sending, seeing, ingesting,
                 instStatus, messages, messageLogs, qrCodes, apiStatus, now>>

\* Lines 352-354: getChats() rejected; logged.
ImportChatsRejected(i) ==
  /\ importing[i].pc = "getChats"
  /\ importing' = Without(importing, i)
  /\ last' = Step("getChats.rejected", "error", "none", <<>>, 0, "", NoMsg)
  /\ UNCHANGED <<svc, errorListener, pcInit, destroying, sending, seeing, ingesting,
                 instStatus, repo, now>>

\* Lines 333-344, then the loop again: getMessages() resolved with the messages `ids`.
ImportMessagesResolved(i, ids, attr) ==
  /\ importing[i].pc = "getMessages"
  /\ LET r == loadChats(contacts, importing[i].rest, attr, client)
     IN  /\ messages' = loadMessages(messages, importing[i].chat, ids)
         /\ contacts' = r.contacts
         /\ importing' = Without(importing, i) \o r.task
  /\ last' = Step("getMessages.resolved", "ok", "none", <<>>, 0, importing[i].chat, NoMsg)
  /\ UNCHANGED <<svc, errorListener, pcInit, destroying, sending, seeing, ingesting,
                 instStatus, messageLogs, qrCodes, apiStatus, now>>

\* Lines 345-347, then the loop again: getMessages() rejected; logged and skipped.
ImportMessagesRejected(i, attr) ==
  /\ importing[i].pc = "getMessages"
  /\ LET r == loadChats(contacts, importing[i].rest, attr, client)
     IN  /\ contacts' = r.contacts
         /\ importing' = Without(importing, i) \o r.task
  /\ last' = Step("getMessages.rejected", "skipped", "none", <<>>, 0, importing[i].chat, NoMsg)
  /\ UNCHANGED <<svc, errorListener, pcInit, destroying, sending, seeing, ingesting,
                 instStatus, messages, messageLogs, qrCodes, apiStatus, now>>


\* ------------------------------------------------- processIncomingMessage
\* Line 363: chatId.endsWith("@c.us") ? chatId : `${chatId}@c.us`
FormatChatId(chatId) == IF chatId \in ChatIds THEN chatId ELSE Cus(chatId)

\* An initial status that ignores the direction of the message.
StoredStatusReceived(fromMe) == "received"

\* Lines 395 and 341: message.fromMe ? "sent" : "received"
StoredStatus(fromMe) == IF fromMe THEN "sent" ELSE "received"

\* Lines 387-418: saveMessage, the contact's lastMessage, the log entry.
\* Returns the store's contacts, messages and messageLogs.
saveIncoming(cts, msgs, logs, message, contact) ==
  [messages |->
     saveMessage(msgs, [id |-> message.id, chatId |-> contact.id,
                        timestamp |-> message.timestamp, fromMe |-> message.fromMe,
                        status |-> StoredStatus(message.fromMe)]),
   contacts |->
     saveContact(cts, Merge(contact,
                            [lastMessage |-> [timestamp |-> message.timestamp,
                                              status |-> StoredStatus(message.fromMe)]])),
   messageLogs |->
     saveMessageLog(logs, NewLog(message.id, StoredStatus(message.fromMe),
                                 message.timestamp))]

\* Lines 381-385: the contact is known; the unread counter of a message that is
\* not from self is incremented.
knownContact(cts, message) ==
  LET stored == cts[FormatChatId(message.chat)]
  IN  IF message.fromMe THEN stored
      ELSE [stored EXCEPT !.unreadCount = @ + 1]

\* Lines 228-243 and 360-418.  With a known contact the handler runs to its
\* end; with an unknown one it is suspended on message.getChat().
OnMessage(inst, message) ==
  /\ Emits(inst)
  /\ IF FormatChatId(message.chat) \in DOMAIN contacts
     THEN /\ Len(messageLogs) < MaxLogs
          /\ message.fromMe \/ contacts[FormatChatId(message.chat)].unreadCount < MaxUnread
          /\ LET contact == knownContact(contacts, message)
                 r == saveIncoming(
                        IF message.fromMe THEN contacts ELSE saveContact(contacts, contact),
                        messages, messageLogs, message, contact)
             IN  /\ contacts' = r.contacts
                 /\ messages' = r.messages
                 /\ messageLogs' = r.messageLogs
          /\ ingesting' = ingesting
          /\ last' = Step("message", "ok", "none", <<"message">>, inst,
                          FormatChatId(message.chat), message)
     ELSE /\ Len(ingesting) < MaxIngest
          /\ ingesting' = Append(ingesting, message)
          /\ last' = Step("message", "pending", "getChat", <<"message">>, inst,
                          FormatChatId(message.chat), message)
          /\ UNCHANGED <<contacts, messages, messageLogs>>
  /\ UNCHANGED <<svc, errorListener, pcInit, destroying, sending, seeing, importing,
                 instStatus, qrCodes, apiStatus, now>>

\* Lines 370-418: getChat() and getContact() resolved; the new contact is saved.
IngestResolved(i) ==
  /\ Len(messageLogs) < MaxLogs
  /\ LET message == ingesting[i]
         contact == [id |-> FormatChatId(message.chat),
                     unreadCount |-> IF message.fromMe THEN 0 ELSE 1]
         r == saveIncoming(saveContact(contacts, contact), messages, messageLogs,
                           message, contact)
     IN  /\ contacts' = r.contacts
         /\ messages' = r.messages
         /\ messageLogs' = r.messageLogs
         /\ last' = Step("getChat.resolved", "ok", "none", <<>>, 0, contact.id, message)
  /\ ingesting' = Without(ingesting, i)
  /\ UNCHANGED <<svc, errorListener, pcInit, destroying, sending, seeing, importing,
                 instStatus, qrCodes, apiStatus, now>>

\* Lines 419-421: getChat() or getContact() rejected; logged.
IngestRejected(i) ==
  /\ ingesting' = Without(ingesting, i)
  /\ last' = Step("getChat.rejected", "error", "none", <<>>, 0, FormatChatId(ingesting[i].chat),
                  ingesting[i])
  /\ UNCHANGED <<svc, errorListener, pcInit, destroying, sending, seeing, importing,
                 instStatus, repo, now>>

\* ------------------------------------------------------------ message_ack
\* Lines 256-258.
AckStatus(ack) == IF ack = 4 THEN "read" ELSE IF ack = 3 THEN "delivered" ELSE "sent"

\* Lines 246-269.
OnMessageAck(inst, message, ack) ==
  /\ Emits(inst)
  /\ LET r == updateMessageStatus(messages, messageLogs, message.id, AckStatus(ack), now)
     IN  IF message.fromMe
         THEN messages' = r.messages /\ messageLogs' = r.messageLogs
         ELSE UNCHANGED <<messages, messageLogs>>
  /\ last' = Step("message_ack", AckStatus(ack), "none", <<"message_status">>, inst,
                  message.chat, message)
  /\ UNCHANGED <<svc, errorListener, tasks, instStatus, contacts, qrCodes, apiStatus, now>>

\* ------------------------------------------------- observers that throw
\* this.emit(event, ...) is EventEmitter.emit (src/server.js:39, 83): it calls
\* the listeners of the event in registration order, synchronously and with
\* no try/catch, so an exception of listener k leaves listeners k+1.. uncalled
\* and propagates out of emit into the transport event handler that called it.
\* `notified` is the number of listeners that were called.
Thrown(k) == [id |-> 0, notified |-> k]

\* Lines 166-172: the ready handler when listener k of `event` (stateChange or
\* ready) throws.  The fields are assigned before the first emit; the rest of
\* the async handler (the online snapshot, loadInitialData) does not run.
OnReadyObserverThrows(inst, event, k) ==
  /\ Emits(inst)
  /\ connectionState' = "CONNECTED"
  /\ qrCode' = Null
  /\ connectionError' = Null
  /\ last' = Step("ready", "threw", "none",
                  IF event = "stateChange" THEN <<"stateChange">>
                  ELSE <<"stateChange", "ready">>,
                  inst, "", Thrown(k))
  /\ UNCHANGED <<client, isInitializing, errorListener, tasks, instStatus, repo, now>>

\* Lines 228-230: the message handler when listener k of the message event
\* throws: the registered message handlers are not called and
\* processIncomingMessage does not run.  (A throwing handler registered with
\* onMessage is caught at lines 233-238 and changes nothing: that is OnMessage.)
OnMessageObserverThrows(inst, message, k) ==
  /\ Emits(inst)
  /\ last' = Step("message", "threw", "none", <<"message">>, inst,
                  FormatChatId(message.chat), Thrown(k))
  /\ UNCHANGED <<svc, errorListener, tasks, instStatus, repo, now>>

\* Lines 205-210: the disconnected handler when listener k of `event`
\* (stateChange or disconnected) throws.  State and error are assigned before
\* the first emit; the offline snapshot (212-222) and this.client = null (225)
\* do not run.
OnDisconnectedObserverThrows(inst, reason, event, k) ==
  /\ Emits(inst)
  /\ connectionState' = "DISCONNECTED"
  /\ connectionError' = reason
  /\ last' = Step("disconnected", "threw", "none",
                  IF event = "stateChange" THEN <<"stateChange">>
                  ELSE <<"stateChange", "disconnected">>,
                  inst, "", Thrown(k))
  /\ UNCHANGED <<client, qrCode, isInitializing, errorListener, tasks, instStatus, repo, now>>

\* ------------------------------------------------------ outbound operations
\* The guard without the test of the state.
NotConnectedClientOnly == client = NoClient

\* Lines 451, 499, 545, 561: !this.client || this.connectionState !== "CONNECTED"
NotConnected == client = NoClient \/ connectionState # "CONNECTED"

\* Lines 457 and 504: to.includes("@c.us") ? to : `${to}@c.us`
FormatNumber(to) == IF to \in ChatIds THEN to ELSE Cus(to)

\* Lines 450-460: the guard, then the send command is issued.
SendMessageCall(to) ==
  IF NotConnected
  THEN /\ last' = Step("sendMessage", "NotConnected", "none", <<>>, 0, to, NoMsg)
       /\ UNCHANGED <<svc, errorListener, tasks, instStatus, repo, now>>
  ELSE /\ Len(sending) < MaxPending
       /\ sending' = Append(sending, FormatNumber(to))
       /\ last' = Step("sendMessage", "pending", "sendMessage", <<>>, client, to, NoMsg)
       /\ UNCHANGED <<svc, errorListener, pcInit, destroying, seeing, importing, ingesting,
                      instStatus, repo, now>>

\* Lines 463-472.
NewMessage(id, chatId, timestamp) ==
  [id |-> id, chatId |-> chatId, timestamp |-> timestamp, fromMe |-> TRUE, status |-> "sent"]

\* Lines 460-488: client.sendMessage() resolved with the id the transport assigned.
SendMessageResolved(i, id) ==
  /\ i \in 1..Len(sending)
  /\ FromMe(id)
  /\ Len(messageLogs) < MaxLogs
  /\ messages' = saveMessage(messages, NewMessage(id, sending[i], now))
  /\ messageLogs' = saveMessageLog(messageLogs, NewLog(id, "sent", now))
  /\ sending' = Without(sending, i)
  /\ last' = Step("sendMessage.resolved", "ok", "none", <<>>, 0, sending[i],
                  NewMessage(id, sending[i], now))
  /\ UNCHANGED <<svc, errorListener, pcInit, destroying, seeing, importing, ingesting,
                 instStatus, contacts, qrCodes, apiStatus, now>>

\* A sendMessage that writes its log entry before the send command completes.
SendMessageRejectedLogged(i) ==
  /\ i \in 1..Len(sending)
  /\ Len(messageLogs) < MaxLogs
  /\ sending' = Without(sending, i)
  /\ messageLogs' = saveMessageLog(messageLogs, NewLog(0, "failed", now))
  /\ last' = Step("sendMessage.rejected", "error", "none", <<>>, 0, sending[i], NoMsg)
  /\ UNCHANGED <<svc, errorListener, pcInit, destroying, seeing, importing, ingesting,
                 instStatus, contacts, messages, qrCodes, apiStatus, now>>

\* Lines 489-492: client.sendMessage() rejected; the error is rethrown.
SendMessageRejected(i) ==
  /\ i \in 1..Len(sending)
  /\ sending' = Without(sending, i)
  /\ last' = Step("sendMessage.rejected", "error", "none", <<>>, 0, sending[i], NoMsg)
  /\ UNCHANGED <<svc, errorListener, pcInit, destroying, seeing, importing, ingesting,
                 instStatus, repo, now>>

\* Lines 498-505: the guard, then the mark-seen command is issued.
MarkChatAsReadCall(chatId) ==
  IF NotConnected
  THEN /\ last' = Step("markChatAsRead", "NotConnected", "none", <<>>, 0, chatId, NoMsg)
       /\ UNCHANGED <<svc, errorListener, tasks, instStatus, repo, now>>
  ELSE /\ Len(seeing) < MaxPending
       /\ seeing' = Append(seeing, FormatNumber(chatId))
       /\ last' = Step("markChatAsRead", "pending", "sendSeen", <<>>, client, chatId, NoMsg)
       /\ UNCHANGED <<svc, errorListener, pcInit, destroying, sending, importing, ingesting,
                      instStatus, repo, now>>

\* Lines 505-506: client.sendSeen() resolved.
MarkChatAsReadResolved(i) ==
  /\ i \in 1..Len(seeing)
  /\ LET r == markMessagesAsRead(messages, contacts, seeing[i])
     IN  messages' = r.messages /\ contacts' = r.contacts
  /\ seeing' = Without(seeing, i)
  /\ last' = Step("markChatAsRead.resolved", "ok", "none", <<>>, 0, seeing[i], NoMsg)
  /\ UNCHANGED <<svc, errorListener, pcInit, destroying, sending, importing, ingesting,
                 instStatus, messageLogs, qrCodes, apiStatus, now>>

\* Lines 507-510: client.sendSeen() rejected; the error is rethrown.
MarkChatAsReadRejected(i) ==
  /\ i \in 1..Len(seeing)
  /\ seeing' = Without(seeing, i)
  /\ last' = Step("markChatAsRead.rejected", "error", "none", <<>>, 0, seeing[i], NoMsg)
  /\ UNCHANGED <<svc, errorListener, pcInit, destroying, sending, importing, ingesting,
                 instStatus, repo, now>>

\* Lines 544-555: the guard, then the query is passed through to the transport.
GetChats ==
  /\ last' = IF NotConnected
             THEN Step("getChats", "NotConnected", "none", <<>>, 0, "", NoMsg)
             ELSE Step("getChats", "pending", "getChats", <<>>, client, "", NoMsg)
  /\ UNCHANGED <<svc, errorListener, tasks, instStatus, repo, now>>

\* Lines 560-571.
GetContacts ==
  /\ last' = IF NotConnected
             THEN Step("getContacts", "NotConnected", "none", <<>>, 0, "", NoMsg)
             ELSE Step("getContacts", "pending", "getContacts", <<>>, client, "", NoMsg)
  /\ UNCHANGED <<svc, errorListener, tasks, instStatus, repo, now>>

\* Time passes between two readings of new Date().
Tick ==
  /\ now < MaxClock
  /\ now' = now + 1
  /\ last' = Step("tick", "ok", "none", <<>>, 0, "", NoMsg)
  /\ UNCHANGED <<svc, errorListener, tasks, instStatus, repo>>

\* ---------------------------------------------------------- specifications
Insts == 1..MaxInst

Lifecycle ==
  \/ OnError
  \/ InitializeCall
  \/ InitializeCreate
  \/ InitializeResolved
  \/ \E error \in StartErrors : InitializeRejected(error)
  \/ DisconnectCall
  \/ DisconnectResolved
  \/ DisconnectRejected
  \/ \E inst \in Insts, qr \in QRStrings : OnQr(inst, qr)
  \/ \E inst \in Insts : OnAuthenticated(inst)
  \/ \E inst \in Insts, error \in Reasons : OnAuthFailure(inst, error)
  \/ \E inst \in Insts, reason \in Reasons : OnDisconnected(inst, reason)
  \/ \E inst \in Insts : OnReady(inst)

BulkImport ==
  \/ \E i \in 1..Len(importing), chats \in ChatLists, attr \in ChatAttrs :
       ImportChatsResolved(i, chats, attr)
  \/ \E i \in 1..Len(importing) : ImportChatsRejected(i)
  \/ \E i \in 1..Len(importing), ids \in SUBSET MsgIds, attr \in ChatAttrs :
       ImportMessagesResolved(i, ids, attr)
  \/ \E i \in 1..Len(importing), attr \in ChatAttrs : ImportMessagesRejected(i, attr)

Inbound ==
  \/ \E inst \in Insts, message \in RawMsgs : OnMessage(inst, message)
  \/ \E i \in 1..Len(ingesting) : IngestResolved(i)
  \/ \E i \in 1..Len(ingesting) : IngestRejected(i)
  \/ \E inst \in Insts, message \in RawMsgs, ack \in 0..5 : OnMessageAck(inst, message, ack)

Outbound ==
  \/ \E to \in Users \cup ChatIds : SendMessageCall(to)
  \/ \E i \in 1..Len(sending), id \in MsgIds : SendMessageResolved(i, id)
  \/ \E i \in 1..Len(sending) : SendMessageRejected(i)
  \/ \E chatId \in Users \cup ChatIds : MarkChatAsReadCall(chatId)
  \/ \E i \in 1..Len(seeing) : MarkChatAsReadResolved(i)
  \/ \E i \in 1..Len(seeing) : MarkChatAsReadRejected(i)
  \/ GetChats
  \/ GetContacts

Next == Lifecycle \/ BulkImport \/ Inbound \/ Outbound \/ Tick

Spec == Init /\ [][Next]_vars


\* The session alone: every lifecycle call and event, on an account that has
\* no chats to import.
NoAttrs == [c \in ChatIds |-> [unreadCount |-> 0, lastId |-> 0]]

NextSession ==
  \/ InitializeCall
  \/ InitializeCreate
  \/ InitializeResolved
  \/ InitializeRejected("E_START")
  \/ DisconnectCall
  \/ DisconnectResolved
  \/ DisconnectRejected
  \/ \E inst \in Insts : OnQr(inst, "qrA")
  \/ \E inst \in Insts : OnAuthenticated(inst)
  \/ \E inst \in Insts, error \in Reasons : OnAuthFailure(inst, error)
  \/ \E inst \in Insts, reason \in Reasons : OnDisconnected(inst, reason)
  \/ \E inst \in Insts : OnReady(inst)
  \/ \E i \in 1..Len(importing) : ImportChatsResolved(i, <<>>, NoAttrs)
  \/ \E i \in 1..Len(importing) : ImportChatsRejected(i)

SpecSession == Init /\ [][NextSession]_vars


\* Connecting: initialize() up to the ready event, on an account that has no
\* chats to import.
Connect ==
  \/ InitializeCall
  \/ InitializeCreate
  \/ InitializeResolved
  \/ \E inst \in Insts : OnReady(inst)
  \/ \E i \in 1..Len(importing) : ImportChatsResolved(i, <<>>, NoAttrs)

\* Inbound traffic of a connected session: message and message_ack events.
NextInbound ==
  \/ Connect
  \/ \E inst \in Insts, message \in RawMsgs : OnMessage(inst, message)
  \/ \E i \in 1..Len(ingesting) : IngestResolved(i)
  \/ \E i \in 1..Len(ingesting) : IngestRejected(i)
  \/ \E inst \in Insts, message \in RawMsgs, ack \in 0..5 : OnMessageAck(inst, message, ack)

SpecInbound == Init /\ [][NextInbound]_vars

\* Bulk import and markChatAsRead: an account whose chats carry unread counts
\* and messages, none with a lastMessage summary.
ReadAttrs == [ChatIds -> [unreadCount : 0..1, lastId : {0}]]

NextRead ==
  \/ Connect
  \/ \E i \in 1..Len(importing), chats \in ChatLists, attr \in ReadAttrs :
       ImportChatsResolved(i, chats, attr)
  \/ \E i \in 1..Len(importing), ids \in SUBSET MsgIds, attr \in ReadAttrs :
       ImportMessagesResolved(i, ids, attr)
  \/ \E i \in 1..Len(importing), attr \in ReadAttrs : ImportMessagesRejected(i, attr)
  \/ \E chatId \in Users \cup ChatIds : MarkChatAsReadCall(chatId)
  \/ \E i \in 1..Len(seeing) : MarkChatAsReadResolved(i)
  \/ \E i \in 1..Len(seeing) : MarkChatAsReadRejected(i)

SpecRead == Init /\ [][NextRead]_vars

\* The outbound operations in every state of the session: initialize() that
\* resolves or rejects, ready and disconnected events, and the four guarded
\* operations on one chat, addressed by its number and by its chat id.
GuardTargets == {"u1", "u1@c.us"}

NextGuard ==
  \/ InitializeCall
  \/ InitializeCreate
  \/ InitializeResolved
  \/ InitializeRejected("E_START")
  \/ \E inst \in Insts, reason \in Reasons : OnDisconnected(inst, reason)
  \/ \E inst \in Insts : OnReady(inst)
  \/ \E i \in 1..Len(importing) : ImportChatsResolved(i, <<>>, NoAttrs)
  \/ \E to \in GuardTargets : SendMessageCall(to)
  \/ \E i \in 1..Len(sending), id \in MsgIds : SendMessageResolved(i, id)
  \/ \E i \in 1..Len(sending) : SendMessageRejected(i)
  \/ \E chatId \in GuardTargets : MarkChatAsReadCall(chatId)
  \/ \E i \in 1..Len(seeing) : MarkChatAsReadResolved(i)
  \/ \E i \in 1..Len(seeing) : MarkChatAsReadRejected(i)
  \/ GetChats
  \/ GetContacts

SpecGuard == Init /\ [][NextGuard]_vars

\* sendMessage on a connected session, with the transport's echo of what was
\* sent (a message event), on one chat.
OwnMsgs == {m \in RawMsgs : m.fromMe /\ m.chat = "u1@c.us"}

NextSend ==
  \/ Connect
  \/ \E to \in GuardTargets : SendMessageCall(to)
  \/ \E i \in 1..Len(sending), id \in MsgIds : SendMessageResolved(i, id)
  \/ \E i \in 1..Len(sending) : SendMessageRejected(i)
  \/ \E inst \in Insts, message \in OwnMsgs : OnMessage(inst, message)
  \/ \E i \in 1..Len(ingesting) : IngestResolved(i)

SpecSend == Init /\ [][NextSend]_vars

\* A failing session start: initialize() whose session-start command resolves
\* or rejects, with and without a listener registered for the service's
\* "error" event.
NextStart ==
  \/ OnError
  \/ NextSession
  \/ InitializeRejected("notAnError")

SpecStart == Init /\ [][NextStart]_vars


\* Observers of the service's events that throw: the ready and message
\* events of a session on one chat.
ChatMsgs == {m \in RawMsgs : m.chat = "u1@c.us"}

NextObserve ==
  \/ Connect
  \/ \E inst \in Insts, event \in {"stateChange", "ready"}, k \in 1..MaxObservers :
       OnReadyObserverThrows(inst, event, k)
  \/ \E inst \in Insts, message \in ChatMsgs : OnMessage(inst, message)
  \/ \E i \in 1..Len(ingesting) : IngestResolved(i)
  \/ \E inst \in Insts, message \in ChatMsgs, k \in 1..MaxObservers :
       OnMessageObserverThrows(inst, message, k)

SpecObserve == Init /\ [][NextObserve]_vars

\* Concurrent ingestion on one chat: distinct messages that are not from self,
\* each emitted once by the transport, for a contact that is not known yet,
\* and markChatAsRead on the same chat.
UnreadMsgs == {RawMsg("u1@c.us", 2 * n) : n \in 1..MaxUnread}

\* The message is suspended in a handler or already stored.
Ingested(message) ==
  \/ \E i \in 1..Len(ingesting) : ingesting[i] = message
  \/ FindIndex(MessagesOf(messages, FormatChatId(message.chat)), message.id) > 0

NextRace ==
  \/ Connect
  \/ \E inst \in Insts, message \in UnreadMsgs :
       ~Ingested(message) /\ OnMessage(inst, message)
  \/ \E i \in 1..Len(ingesting) : IngestResolved(i)
  \/ MarkChatAsReadCall("u1@c.us")
  \/ \E i \in 1..Len(seeing) : MarkChatAsReadResolved(i)

SpecRace == Init /\ [][NextRace]_vars

\* The store of one chat under every operation that writes messages: bulk
\* import, live message events and their replays, delivered and read acks,
\* sendMessage and markChatAsRead.
NextStore ==
  \/ Connect
  \/ \E i \in 1..Len(importing) : ImportChatsResolved(i, <<"u1@c.us">>, NoAttrs)
  \/ \E i \in 1..Len(importing), ids \in SUBSET MsgIds :
       ImportMessagesResolved(i, ids, NoAttrs)
  \/ \E inst \in Insts, message \in ChatMsgs : OnMessage(inst, message)
  \/ \E i \in 1..Len(ingesting) : IngestResolved(i)
  \/ \E inst \in Insts, message \in ChatMsgs, ack \in {3, 4} : OnMessageAck(inst, message, ack)
  \/ SendMessageCall("u1")
  \/ \E i \in 1..Len(sending), id \in MsgIds : SendMessageResolved(i, id)
  \/ MarkChatAsReadCall("u1@c.us")
  \/ \E i \in 1..Len(seeing) : MarkChatAsReadResolved(i)

SpecStore == Init /\ [][NextStore]_vars

\* Acks of sent messages over time: sendMessage on one chat, the delivered and
\* read acks of the account's own messages, and the clock.
NextAck ==
  \/ Connect
  \/ SendMessageCall("u1")
  \/ \E i \in 1..Len(sending), id \in MsgIds : SendMessageResolved(i, id)
  \/ \E inst \in Insts, message \in OwnMsgs, ack \in {3, 4} : OnMessageAck(inst, message, ack)
  \/ Tick

SpecAck == Init /\ [][NextAck]_vars

\* QR codes over time: the qr and authenticated events of a starting session,
\* with the clock.
NextQr ==
  \/ InitializeCall
  \/ InitializeCreate
  \/ InitializeResolved
  \/ \E inst \in Insts, qr \in QRStrings : OnQr(inst, qr)
  \/ \E inst \in Insts : OnAuthenticated(inst)
  \/ Tick

SpecQr == Init /\ [][NextQr]_vars

\* The status snapshots of a session: ready, disconnected and auth_failure
\* events, with listeners of the service's events that return and listeners
\* that throw.
NextSnapshot ==
  \/ Connect
  \/ \E inst \in Insts, event \in {"stateChange", "ready"}, k \in 1..MaxObservers :
       OnReadyObserverThrows(inst, event, k)
  \/ \E inst \in Insts, reason \in Reasons : OnDisconnected(inst, reason)
  \/ \E inst \in Insts, reason \in Reasons, event \in {"stateChange", "disconnected"},
        k \in 1..MaxObservers :
       OnDisconnectedObserverThrows(inst, reason, event, k)
  \/ \E inst \in Insts, error \in Reasons : OnAuthFailure(inst, error)

SpecSnapshot == Init /\ [][NextSnapshot]_vars

\* Bulk import over the session lifecycle: ready events of any started
\* instance, before and after disconnect(), on an account whose chat list holds
\* chats and groups and whose message loads resolve or reject.
NextImport ==
  \/ InitializeCall
  \/ InitializeCreate
  \/ InitializeResolved
  \/ DisconnectCall
  \/ DisconnectResolved
  \/ \E inst \in Insts : OnReady(inst)
  \/ \E i \in 1..Len(importing), chats \in ChatLists : ImportChatsResolved(i, chats, NoAttrs)
  \/ \E i \in 1..Len(importing) : ImportChatsRejected(i)
  \/ \E i \in 1..Len(importing), ids \in SUBSET MsgIds :
       ImportMessagesResolved(i, ids, NoAttrs)
  \/ \E i \in 1..Len(importing) : ImportMessagesRejected(i, NoAttrs)

SpecImport == Init /\ [][NextImport]_vars


\* One sendMessage and the acks of the message it sends: the delivered and
\* read acks of the account's own message may arrive while the send command
\* is pending or after the Message is stored.  A send command that the
\* transport has completed does resume sendMessage: weak fairness on its
\* continuation.
NextLost ==
  \/ Connect
  \/ (messages = <<>> /\ SendMessageCall("u1"))
  \/ \E i \in 1..Len(sending), id \in MsgIds : SendMessageResolved(i, id)
  \/ \E inst \in Insts, message \in OwnMsgs, ack \in {3, 4} : OnMessageAck(inst, message, ack)
  \/ Tick

SpecLost ==
  /\ Init
  /\ [][NextLost]_vars
  /\ WF_vars(\E i \in 1..Len(sending), id \in MsgIds : SendMessageResolved(i, id))


\* ------------------------------------------------------------------ claims
SessionEvents == {"qr", "authenticated", "ready", "auth_failure", "disconnected"}

\* C1: initialize() called while the state is Connecting or Connected returns
\* without side effect: state, qrCode, error, handle and store unchanged, no
\* transport instance created, no stateChange emitted.
C1_InitializeIdempotent ==
  [][(last'.op = "initialize" /\ connectionState \in {"CONNECTING", "CONNECTED"})
       => /\ UNCHANGED <<connectionState, qrCode, connectionError, client, repo, instStatus>>
          /\ pcInit' = pcInit
          /\ last'.emits = <<>>]_vars

\* C2: whenever the state is Disconnected and no initialize() is in progress,
\* a call of initialize() moves the state to Connecting and starts a session
\* on a new transport instance.
C2_RetryAlwaysPossible ==
  [][(last'.op = "initialize" /\ connectionState = "DISCONNECTED" /\ ~isInitializing)
       => /\ connectionState' = "CONNECTING"
          /\ pcInit' = "import"]_vars

\* C3: a qr, authenticated, ready, auth_failure or disconnected event of an
\* instance that a newer instance has replaced leaves state, qrCode, error
\* and the current handle unchanged.
C3_StaleEventsDiscarded ==
  [][(last'.op \in SessionEvents /\ \E newer \in Created : newer > last'.inst)
       => UNCHANGED <<connectionState, qrCode, connectionError, client>>]_vars

\* C8: qrCode is non-null only while the state is Connecting.
C8_QrOnlyWhileConnecting ==
  qrCode # Null => connectionState = "CONNECTING"

\* C9: a disconnect() that issued the teardown ends, whether the teardown
\* resolves or rejects, with the state Disconnected, no qrCode and no handle;
\* a rejection is surfaced to the caller; with no transport it is a no-op.
C9_DisconnectAlwaysDisconnects ==
  /\ last.op \in {"disconnect.resolved", "disconnect.rejected"}
       => /\ connectionState = "DISCONNECTED"
          /\ qrCode = Null
          /\ client = NoClient
  /\ last.op = "disconnect.rejected" => last.result = "error"


OutboundOps == {"sendMessage", "markChatAsRead", "getChats", "getContacts"}

\* C4: sendMessage, markChatAsRead, getChats and getContacts called in a state
\* other than Connected fail with the not-connected error, issue no transport
\* command and write nothing to contacts, messages and message logs.
C4_OutboundGuarded ==
  [][(last'.op \in OutboundOps /\ connectionState # "CONNECTED")
       => /\ last'.result = "NotConnected"
          /\ last'.cmd = "none"
          /\ UNCHANGED <<sending, seeing>>
          /\ UNCHANGED <<contacts, messages, messageLogs>>]_vars

\* A sendMessage refused while Connecting with a transport handle and with
\* messages in the store.
C4_Witness ==
  /\ last.op = "sendMessage"
  /\ last.result = "NotConnected"
  /\ connectionState = "CONNECTING"
  /\ client # NoClient
  /\ messages # <<>>

\* The occurrences of a message id among the stored messages of a chat.
Occurrences(msgs, chatId, id) ==
  {i \in 1..Len(MessagesOf(msgs, chatId)) : MessagesOf(msgs, chatId)[i].id = id}

\* C5: processing again an inbound message that is already stored (same id,
\* same chat, not from self) leaves one Message under that (chatId, id) and
\* does not increment the contact's unreadCount a second time.
C5_IngestIdempotent ==
  [][(/\ last'.op \in {"message", "getChat.resolved"}
      /\ last'.result = "ok"
      /\ ~last'.ret.fromMe
      /\ last'.chat \in DOMAIN contacts
      /\ Occurrences(messages, last'.chat, last'.ret.id) # {})
       => /\ Cardinality(Occurrences(messages', last'.chat, last'.ret.id)) = 1
          /\ contacts'[last'.chat].unreadCount = contacts[last'.chat].unreadCount]_vars

StatusRank(status) ==
  IF status = "read" THEN 3 ELSE IF status = "delivered" THEN 2
  ELSE IF status = "sent" THEN 1 ELSE 0

\* C6: a message_ack with a code in 0..5 never moves the stored status of a
\* self-sent message backward along sent -> delivered -> read.
C6_AckForwardOnly ==
  [][last'.op = "message_ack"
       => \A k \in 1..Len(messages) : \A j \in 1..Len(messages[k].list) :
            messages[k].list[j].fromMe
              => StatusRank(messages'[k].list[j].status)
                   >= StatusRank(messages[k].list[j].status)]_vars

\* C7: a markChatAsRead whose mark-seen command resolved sets the unreadCount
\* of the chat's contact to 0 and every non-self message of the chat to read,
\* and leaves self-sent messages and other chats as they were, for every chat
\* with a stored contact.
C7_MarkChatAsRead ==
  [][(last'.op = "markChatAsRead.resolved" /\ last'.chat \in DOMAIN contacts)
       => /\ contacts'[last'.chat].unreadCount = 0
          /\ Len(messages') = Len(messages)
          /\ \A k \in 1..Len(messages) :
               /\ messages'[k].chatId = messages[k].chatId
               /\ Len(messages'[k].list) = Len(messages[k].list)
               /\ \A j \in 1..Len(messages[k].list) :
                    IF messages[k].chatId = last'.chat /\ ~messages[k].list[j].fromMe
                    THEN messages'[k].list[j] = [messages[k].list[j] EXCEPT !.status = "read"]
                    ELSE messages'[k].list[j] = messages[k].list[j]]_vars

\* C10: a sendMessage whose send command rejects throws and leaves the store
\* as it was; one whose send command resolves returns a Message with status
\* sent, fromMe true and the transport's id, stores that Message under its
\* chat and appends one MessageLog entry for it.
C10_SendNoPartialState ==
  [][/\ last'.op = "sendMessage.rejected"
          => last'.result = "error" /\ UNCHANGED repo
     /\ last'.op = "sendMessage.resolved"
          => /\ last'.ret.status = "sent"
             /\ last'.ret.fromMe
             /\ last'.ret.id \in MsgIds
             /\ last'.ret.chatId \in ChatIds
             /\ \E i \in 1..Len(MessagesOf(messages', last'.ret.chatId)) :
                  MessagesOf(messages', last'.ret.chatId)[i] = last'.ret
             /\ Cardinality(Occurrences(messages', last'.ret.chatId, last'.ret.id)) = 1
             /\ Len(messageLogs') = Len(messageLogs) + 1
             /\ SubSeq(messageLogs', 1, Len(messageLogs)) = messageLogs
             /\ messageLogs'[Len(messageLogs')].messageId = last'.ret.id
             /\ messageLogs'[Len(messageLogs')].status = "sent"
             /\ UNCHANGED <<contacts, qrCodes, apiStatus>>]_vars

\* A send command rejected after an earlier sendMessage stored its Message and
\* its log entry.
C10_Witness ==
  /\ last.op = "sendMessage.rejected"
  /\ messageLogs # <<>>
  /\ \E k \in 1..Len(messages) : \E j \in 1..Len(messages[k].list) :
       messages[k].list[j].fromMe /\ messages[k].list[j].status = "sent"

\* C11: when the session-start command throws, the state becomes Disconnected,
\* the error message is recorded, an offline APIStatus snapshot carrying it is
\* persisted, the initializing flag is cleared and no second session-start is
\* issued.
C11_StartFailureRecorded ==
  [][last'.op = "initialize.rejected"
       => /\ connectionState' = "DISCONNECTED"
          /\ connectionError' # Null
          /\ apiStatus'.status = "offline"
          /\ apiStatus'.errorMessage = connectionError'
          /\ ~isInitializing'
          /\ pcInit' = "idle"
          /\ last'.cmd = "none"]_vars

\* C12: when the session-start command throws, the initialize() call completes
\* with a failure, not normally.
C12_StartFailureReported ==
  [][last'.op = "initialize.rejected" => last'.result = "error"]_vars

\* C13: when an observer of an event throws, every other observer of that
\* event is still called, the handler goes on to emit its remaining events,
\* and the emitting component completes its own effects: the ready handler
\* saves the online snapshot and starts the bulk import, the message handler
\* ingests the message.
C13_ObserverIsolation ==
  [][last'.result = "threw"
       => /\ last'.ret.notified = MaxObservers
          /\ last'.op = "ready"
               => /\ last'.emits = <<"stateChange", "ready">>
                  /\ apiStatus'.status = "online"
                  /\ client # NoClient => Len(importing') = Len(importing) + 1
          /\ last'.op = "message"
               => \/ Len(ingesting') = Len(ingesting) + 1
                  \/ Len(messageLogs') = Len(messageLogs) + 1]_vars

\* The stored messages of a chat that are not from self and not yet read: the
\* messages ingested since the chat was last marked as read.
Unread(chatId) ==
  {i \in 1..Len(MessagesOf(messages, chatId)) :
     /\ ~MessagesOf(messages, chatId)[i].fromMe
     /\ MessagesOf(messages, chatId)[i].status = "received"}

\* C14: whatever the interleaving of concurrently ingested message events and
\* markChatAsRead on one chat, once no ingestion of the chat is in flight the
\* contact's unreadCount is the number of distinct non-self messages ingested
\* since the last mark-as-read.
C14_UnreadCountSerialized ==
  \A c \in DOMAIN contacts :
    (\A i \in 1..Len(ingesting) : FormatChatId(ingesting[i].chat) # c)
      => contacts[c].unreadCount = Cardinality(Unread(c))

\* C15: the completion of a disconnect() that was suspended on the teardown
\* command neither clears the handle of, nor forces Disconnected over, a
\* transport instance that an initialize() started after it created, so no
\* started instance is left without being referenced by the session.
C15_DisconnectSparesNewerInstance ==
  [][(/\ last'.op = "disconnect.resolved"
      /\ client # NoClient
      /\ instStatus[client] = "started")
       => /\ client' = client
          /\ connectionState' = connectionState]_vars

\* C16: a live message event, its replay or the bulk import of a message that
\* is already stored keeps one Message per (chatId, id) and does not move its
\* status back: a status that an ack or a mark-as-read advanced to delivered
\* or read is not reset to sent or received, so every arrival order ends in
\* the same record.
C16_ImportAndEventsConverge ==
  [][(\/ last'.op \in {"getChat.resolved", "getMessages.resolved"}
      \/ last'.op = "message" /\ last'.result = "ok")
       => /\ \A c \in ChatIds, id \in MsgIds :
               Cardinality(Occurrences(messages', c, id)) <= 1
          /\ \A k \in 1..Len(messages) : \A j \in 1..Len(messages[k].list) :
               StatusRank(messages'[k].list[j].status)
                 >= StatusRank(messages[k].list[j].status)]_vars

\* The status domain of a message by its direction.
StatusDomain(fromMe) ==
  IF fromMe THEN {"sent", "delivered", "read", "failed"} ELSE {"received", "read"}

MaxTimestamp(list) ==
  CHOOSE t \in {list[i].timestamp : i \in 1..Len(list)} :
    \A i \in 1..Len(list) : list[i].timestamp <= t

\* C17: after a message of a chat is ingested, the contact's lastMessage
\* carries the maximum timestamp among the ingested messages of that chat, so
\* ingesting an older message after a newer one leaves lastMessage unchanged.
C17_LastMessageIsLatest ==
  [][(/\ last'.op \in {"message", "getChat.resolved"}
      /\ last'.result = "ok")
       => contacts'[last'.chat].lastMessage.timestamp
            = MaxTimestamp(MessagesOf(messages', last'.chat))]_vars

\* C18: the message log is append-only and holds exactly one entry for each
\* message id: no step removes or reorders entries, every stored message has
\* an entry, and no two entries carry the same message id.
C18_OneLogPerMessage ==
  [][/\ Len(messageLogs') >= Len(messageLogs)
     /\ \A i \in 1..Len(messageLogs) :
          messageLogs'[i].messageId = messageLogs[i].messageId
     /\ \A k \in 1..Len(messages') : \A j \in 1..Len(messages'[k].list) :
          \E i \in 1..Len(messageLogs') :
            messageLogs'[i].messageId = messages'[k].list[j].id
     /\ \A i, j \in 1..Len(messageLogs') :
          messageLogs'[i].messageId = messageLogs'[j].messageId => i = j]_vars

\* C19: an ack changes neither a deliveredAt nor a readAt that is already set,
\* and an entry whose readAt is set keeps status read when a late delivered
\* ack arrives.
C19_LogTimestampsWrittenOnce ==
  [][last'.op = "message_ack"
       => \A i \in 1..Len(messageLogs) :
            /\ messageLogs[i].deliveredAt # 0
                 => messageLogs'[i].deliveredAt = messageLogs[i].deliveredAt
            /\ messageLogs[i].readAt # 0
                 => /\ messageLogs'[i].readAt = messageLogs[i].readAt
                    /\ messageLogs'[i].status = "read"]_vars

\* C21: an authenticated event with a pending QR code marks the latest issued
\* QRCode record (the record of the pending code) as scanned, and no
\* authenticated event changes a scannedAt that is already set.
C21_ScannedAtSetOnce ==
  [][(last'.op = "authenticated" /\ qrCode # Null)
       => /\ qrCodes'[Len(qrCodes')].code = qrCode
          /\ qrCodes'[Len(qrCodes')].scanned
          /\ \A i \in 1..Len(qrCodes) :
               qrCodes[i].scannedAt # 0 => qrCodes'[i].scannedAt = qrCodes[i].scannedAt]_vars

\* C22: a ready event makes the state Connected, clears the error and makes
\* the latest APIStatus snapshot online; a disconnected(reason) event of the
\* current transport makes the state Disconnected, sets the error to the
\* reason, discards the handle and makes the latest snapshot offline with the
\* reason; an auth_failure event sets the error and leaves the state unchanged.
C22_SnapshotsTrackLifecycle ==
  [][/\ last'.op = "ready"
          => /\ connectionState' = "CONNECTED"
             /\ connectionError' = Null
             /\ apiStatus'.status = "online"
     /\ (last'.op = "disconnected" /\ client # NoClient /\ last'.inst = client)
          => /\ connectionState' = "DISCONNECTED"
             /\ connectionError' \in Reasons
             /\ client' = NoClient
             /\ apiStatus'.status = "offline"
             /\ apiStatus'.errorMessage = "Disconnected: " \o connectionError'
     /\ last'.op = "auth_failure"
          => /\ connectionError' # Null
             /\ connectionState' = connectionState]_vars

\* C23: an initialize() called while an earlier initialize() is suspended on
\* the library import or on the session-start command returns as a no-op: it
\* changes no field, creates no transport instance and issues no command, so
\* the suspended call creates the one instance and issues the one
\* session-start; the initializing flag is set exactly while a call is
\* suspended.
C23_ConcurrentInitializeIsNoop ==
  [][/\ (last'.op = "initialize" /\ pcInit # "idle")
          => /\ last'.result = "noop"
             /\ last'.cmd = "none"
             /\ UNCHANGED <<svc, pcInit, instStatus>>
     /\ last'.op = "initialize.create"
          => /\ pcInit = "import"
             /\ Cardinality(Created') = Cardinality(Created) + 1
             /\ last'.cmd = "initialize"
     /\ isInitializing' <=> pcInit' # "idle"]_vars

\* A second initialize() returned while the first was suspended on the library
\* import, when no transport handle existed yet.
C23_Witness ==
  /\ last.op = "initialize"
  /\ last.result = "noop"
  /\ pcInit = "import"
  /\ client = NoClient
  /\ isInitializing

\* The first chat of a chat list that is not a group; "" when there is none.
RECURSIVE NextChat(_)
NextChat(chats) ==
  IF chats = <<>> THEN ""
  ELSE IF Head(chats) \in ChatIds THEN Head(chats) ELSE NextChat(Tail(chats))

\* C24: every ready event starts one bulk import (one getChats command); when
\* the message load of a chat is rejected, that chat's contact stays stored,
\* no message changes, and the import goes on with the next chat of the list
\* that is not a group: its contact is stored and, while the session holds a
\* transport handle, its messages are requested;
\* no group chat ever becomes a Contact.
C24_ImportPartialSuccess ==
  [][/\ last'.op = "ready"
          => /\ last'.cmd = "getChats"
             /\ Len(importing') = Len(importing) + 1
     /\ last'.op = "getMessages.rejected"
          => /\ last'.chat \in DOMAIN contacts'
             /\ messages' = messages
             /\ \E i \in 1..Len(importing) :
                  /\ importing[i].pc = "getMessages"
                  /\ importing[i].chat = last'.chat
                  /\ LET next == NextChat(importing[i].rest)
                     IN  IF next = ""
                         THEN Len(importing') = Len(importing) - 1
                         ELSE /\ next \in DOMAIN contacts'
                              /\ client # NoClient
                                   => /\ Len(importing') = Len(importing)
                                      /\ importing'[Len(importing')].pc = "getMessages"
                                      /\ importing'[Len(importing')].chat = next
     /\ DOMAIN contacts' \cap GroupIds = {}]_vars

\* C25: whenever the reported session state is CONNECTED the session holds a
\* transport handle, so no outbound operation is refused as not connected
\* while getConnectionState() reports CONNECTED.
C25_ConnectedHasClient ==
  connectionState = "CONNECTED" => (client # NoClient /\ ~NotConnected)

\* C26: an ack for a message of one chat changes no message of any other
\* chat, also when the other chat holds a message with the same id, and it
\* changes no log entry of another message id.
C26_AckTouchesOneChat ==
  [][last'.op = "message_ack"
       => /\ \A k \in 1..Len(messages) :
               messages[k].chatId # last'.chat => messages'[k] = messages[k]
          /\ Len(messageLogs') = Len(messageLogs)
          /\ \A j \in 1..Len(messageLogs) :
               messageLogs[j].messageId # last'.ret.id
                 => messageLogs'[j] = messageLogs[j]]_vars

\* The stored status of message `id` of chat `chatId`; "none" when not stored.
StatusOf(chatId, id) ==
  LET list == MessagesOf(messages, chatId)
  IN  IF FindIndex(list, id) = 0 THEN "none" ELSE list[FindIndex(list, id)].status

\* C27: no ack of a sent message is lost: when the read ack (code 4) of the
\* message that a pending sendMessage is sending has been delivered, then once
\* sendMessage has returned the stored status of that message is read.
C27_NoAckLost ==
  (last.op = "message_ack" /\ last.result = "read" /\ Len(sending) > 0)
    ~> (Len(sending) = 0 /\ StatusOf("u1@c.us", 1) = "read")

====
